---- MODULE Spec2Model ----
(***************************************************************************)
(* gh-dispatch: the workflow-dispatch pipeline of internal/workflow.       *)
(*                                                                         *)
(*   - createDispatchRequest / RunDispatch  (request building, dispatch)   *)
(*   - hasWorkflowDispatch / extractInputs  (trigger classification)       *)
(*   - LoadDispatchableWorkflows            (directory scan)               *)
(*                                                                         *)
(* Go strings that end up in the request are modelled as sequences of      *)
(* characters (one TLA+ string per byte or rune), so that fmt.Sprintf and  *)
(* json.Marshal are modelled by what they do to the characters.            *)
(***************************************************************************)
EXTENDS Integers, Sequences, FiniteSets, TLC

VARIABLES
    pc,         \* position of the running operation
    params,     \* DispatchParams handed to createDispatchRequest / RunDispatch
    transport,  \* the RESTClient: what its Request call will answer
    built,      \* (endpoint, body, err) returned by createDispatchRequest
    requests,   \* every call made on the RESTClient, in order
    resp,       \* the *http.Response the RESTClient returned (NoResp: nil)
    result,     \* the error returned by RunDispatch (NilErr: success)
    on,         \* the decoded `on:` value of one workflow file
    has,        \* hasWorkflowDispatch(on)
    inputs,     \* extractInputs(on)
    emitted,    \* the Workflow values appended for `on` (line 86-100)
    dir,        \* the workflows directory as the file system presents it
    idx,        \* position of the range loop over the directory entries
    workflows,  \* the slice LoadDispatchableWorkflows builds
    reads,      \* names handed to os.ReadFile, in order
    scanErr,    \* the error LoadDispatchableWorkflows returns
    model,      \* the Bubble Tea model (type model) of the interactive program
    msg         \* the tea.Msg the last Update call handled

dispatchVars == <<params, transport, built, requests, resp, result>>
triggerVars == <<on, has, inputs, emitted>>
scanVars == <<dir, idx, workflows, reads, scanErr>>
tuiVars == <<model, msg>>
vars == <<pc, dispatchVars, triggerVars, scanVars, tuiVars>>

-----------------------------------------------------------------------------
(* Bounds *)

\* longest ref (branch name) drawn for a DispatchParams
MaxStrLen == 2
\* longest sequence form of an `on:` declaration
MaxSeqLen == 2
\* most entries in the workflows directory
MaxEntries == 3

-----------------------------------------------------------------------------
(* Characters *)

QUOTE == "\""
BSLASH == "\\"
LT == "<"
\* a byte that is not part of any valid UTF-8 sequence (0xFF)
BAD == "xFF"
\* the rune U+FFFD, which is valid UTF-8
REPL == "uFFFD"

\* the nil error
NilErr == [isNil |-> TRUE]
\* the nil *http.Response
NoResp == [isNil |-> TRUE]

RECURSIVE Concat(_)
\* strings.Join(parts, ""): what a chain of %s verbs or of appends produces
Concat(parts) ==
    IF parts = <<>> THEN <<>> ELSE Head(parts) \o Concat(Tail(parts))

RECURSIVE StrsUpTo(_, _)
StrsUpTo(alphabet, n) ==
    IF n = 0 THEN {<<>>}
    ELSE LET shorter == StrsUpTo(alphabet, n - 1)
         IN  shorter \cup {Append(s, c) : s \in shorter, c \in alphabet}

\* the ASCII characters the model uses, in ascending byte order, then the
\* first byte of U+FFFD (0xEF) and the byte 0xFF
ByteOrder ==
    <<" ", "\"", ",", "-", ".", "/", "0", "1", "2", "3", "4", "5",
      "6", "7", "8", "9", ":", "<", "A", "B", "C", "D", "E", "F",
      "G", "H", "I", "J", "K", "L", "M", "N", "O", "P", "Q", "R",
      "S", "T", "U", "V", "W", "X", "Y", "Z", "\\", "_", "a", "b",
      "c", "d", "e", "f", "g", "h", "i", "j", "k", "l", "m", "n",
      "o", "p", "q", "r", "s", "t", "u", "v", "w", "x", "y", "z",
      "{", "}",
      REPL, BAD>>

\* rank of the first byte of a character, for Go's string comparison
ByteOf(c) == CHOOSE i \in 1..Len(ByteOrder) : ByteOrder[i] = c

RECURSIVE StrLess(_, _)
\* a < b on Go strings (bytewise lexicographic)
StrLess(a, b) ==
    IF b = <<>> THEN FALSE
    ELSE IF a = <<>> THEN TRUE
    ELSE IF ByteOf(Head(a)) # ByteOf(Head(b)) THEN ByteOf(Head(a)) < ByteOf(Head(b))
    ELSE StrLess(Tail(a), Tail(b))

RECURSIVE SortedKeys(_)
\* the keys of a map in the order encoding/json writes them
SortedKeys(S) ==
    IF S = {} THEN <<>>
    ELSE LET least == CHOOSE k \in S : \A o \in S \ {k} : StrLess(k, o)
         IN  <<least>> \o SortedKeys(S \ {least})

-----------------------------------------------------------------------------
(* encoding/json: Marshal of the payload map *)

\* one character of a JSON string as json.Marshal writes it (HTML escaping on)
encodeChar(c) ==
    CASE c = QUOTE -> <<BSLASH, QUOTE>>
      [] c = BSLASH -> <<BSLASH, BSLASH>>
      [] c = LT -> <<BSLASH, "u", "0", "0", "3", "c">>
      [] c = BAD -> <<BSLASH, "u", "f", "f", "f", "d">>
      [] OTHER -> <<c>>

RECURSIVE encodeChars(_)
encodeChars(s) ==
    IF s = <<>> THEN <<>> ELSE encodeChar(Head(s)) \o encodeChars(Tail(s))

encodeString(s) == <<QUOTE>> \o encodeChars(s) \o <<QUOTE>>

RECURSIVE encodeStrMembers(_, _)
encodeStrMembers(m, keys) ==
    IF keys = <<>> THEN <<>>
    ELSE encodeString(Head(keys)) \o <<":">> \o encodeString(m[Head(keys)])
         \o (IF Len(keys) > 1 THEN <<",">> ELSE <<>>)
         \o encodeStrMembers(m, Tail(keys))

\* a map[string]string
encodeStrMap(m) ==
    <<"{">> \o encodeStrMembers(m, SortedKeys(DOMAIN m)) \o <<"}">>

\* a value of the payload: a string or a map[string]string
encodeValue(v) ==
    IF "str" \in DOMAIN v THEN encodeString(v.str) ELSE encodeStrMap(v.obj)

RECURSIVE encodeMembers(_, _)
encodeMembers(m, keys) ==
    IF keys = <<>> THEN <<>>
    ELSE encodeString(Head(keys)) \o <<":">> \o encodeValue(m[Head(keys)])
         \o (IF Len(keys) > 1 THEN <<",">> ELSE <<>>)
         \o encodeMembers(m, Tail(keys))

\* json.Marshal(payload) for payload map[string]any; it cannot fail for a map
\* of strings and string maps, so only the bytes are returned
jsonMarshal(payload) ==
    <<"{">> \o encodeMembers(payload, SortedKeys(DOMAIN payload)) \o <<"}">>

-----------------------------------------------------------------------------
(* createDispatchRequest *)

ReposPrefix == <<"r", "e", "p", "o", "s", "/">>
ActionsWorkflows ==
    <<"/", "a", "c", "t", "i", "o", "n", "s", "/",
      "w", "o", "r", "k", "f", "l", "o", "w", "s", "/">>
DispatchesSuffix == <<"/", "d", "i", "s", "p", "a", "t", "c", "h", "e", "s">>
RefKey == <<"r", "e", "f">>
InputsKey == <<"i", "n", "p", "u", "t", "s">>

ErrOwnerRepo == [msg |-> "owner and repo are required"]
ErrWorkflowFile == [msg |-> "workflow file is required"]
ErrRef == [msg |-> "ref (branch) is required"]

\* fmt.Sprintf("repos/%s/%s/actions/workflows/%s/dispatches", ...)
endpointOf(p) ==
    Concat(<<ReposPrefix, p.Owner, <<"/">>, p.Repo,
             ActionsWorkflows, p.WorkflowFile, DispatchesSuffix>>)

payloadOfAlwaysInputs(p) ==
    (RefKey :> [str |-> p.Ref]) @@ (InputsKey :> [obj |-> p.Inputs])
\* the payload map: "ref" always, "inputs" when len(params.Inputs) > 0
payloadOf(p) ==
    IF DOMAIN p.Inputs # {}
    THEN (RefKey :> [str |-> p.Ref]) @@ (InputsKey :> [obj |-> p.Inputs])
    ELSE (RefKey :> [str |-> p.Ref])

createDispatchRequestFileFirst(p) ==
    IF p.WorkflowFile = <<>>
    THEN [endpoint |-> <<>>, body |-> <<>>, err |-> ErrWorkflowFile]
    ELSE IF p.Owner = <<>> \/ p.Repo = <<>>
    THEN [endpoint |-> <<>>, body |-> <<>>, err |-> ErrOwnerRepo]
    ELSE IF p.Ref = <<>>
    THEN [endpoint |-> <<>>, body |-> <<>>, err |-> ErrRef]
    ELSE [endpoint |-> endpointOf(p),
          body |-> jsonMarshal(payloadOf(p)),
          err |-> NilErr]
createDispatchRequest(p) ==
    IF p.Owner = <<>> \/ p.Repo = <<>>
    THEN [endpoint |-> <<>>, body |-> <<>>, err |-> ErrOwnerRepo]
    ELSE IF p.WorkflowFile = <<>>
    THEN [endpoint |-> <<>>, body |-> <<>>, err |-> ErrWorkflowFile]
    ELSE IF p.Ref = <<>>
    THEN [endpoint |-> <<>>, body |-> <<>>, err |-> ErrRef]
    ELSE [endpoint |-> endpointOf(p),
          body |-> jsonMarshal(payloadOf(p)),
          err |-> NilErr]

-----------------------------------------------------------------------------
(* RunDispatch, one step per statement that touches the transport *)

ErrNetwork == [msg |-> "network error"]
ErrTimeout == [msg |-> "context deadline exceeded"]

Digits == <<"0", "1", "2", "3", "4", "5", "6", "7", "8", "9">>

RECURSIVE Itoa(_)
\* the %d verb
Itoa(n) ==
    IF n < 0 THEN <<"-">> \o Itoa(0 - n)
    ELSE IF n < 10 THEN <<Digits[n + 1]>>
    ELSE Itoa(n \div 10) \o <<Digits[(n % 10) + 1]>>

\* resp.StatusCode < 200 || resp.StatusCode >= 300, negated
statusOKInclusive(code) == code >= 200 /\ code =< 300
statusOK(code) == ~(code < 200 \/ code >= 300)

\* client.Request as the mock of the tests answers it: the error when one is
\* set, else a response with the configured code and body
Request(method, path, body) ==
    IF transport.Error # NilErr
    THEN [resp |-> NoResp, err |-> transport.Error]
    ELSE [resp |-> [StatusCode |-> transport.ResponseCode, Body |-> transport.Body],
          err |-> NilErr]

\* lines 223-226: build the request, return its error untouched
RunCreate ==
    /\ pc = "RunDispatch"
    /\ built' = createDispatchRequest(params)
    /\ IF built'.err # NilErr
       THEN /\ result' = built'.err
            /\ pc' = "returned"
       ELSE /\ pc' = "request"
            /\ UNCHANGED result
    /\ UNCHANGED <<params, transport, requests, resp, triggerVars, scanVars, tuiVars>>

\* lines 228-231: the one POST, and the transport error wrapped with %w
RunRequestRetrying ==
    /\ pc = "request"
    /\ LET r == Request("POST", built.endpoint, built.body)
       IN  /\ requests' = Append(requests,
                   [method |-> "POST", path |-> built.endpoint, body |-> built.body])
           /\ resp' = r.resp
           /\ IF r.err # NilErr
              THEN /\ result' = [msg |-> "failed to dispatch request: ",
                                 cause |-> r.err.msg]
                   /\ pc' = IF Len(requests) < 2 THEN "request" ELSE "returned"
              ELSE /\ pc' = "status"
                   /\ UNCHANGED result
    /\ UNCHANGED <<params, transport, built, triggerVars, scanVars, tuiVars>>
RunRequest ==
    /\ pc = "request"
    /\ LET r == Request("POST", built.endpoint, built.body)
       IN  /\ requests' = Append(requests,
                   [method |-> "POST", path |-> built.endpoint, body |-> built.body])
           /\ resp' = r.resp
           /\ IF r.err # NilErr
              THEN /\ result' = [msg |-> "failed to dispatch request: ",
                                 cause |-> r.err.msg]
                   /\ pc' = "returned"
              ELSE /\ pc' = "status"
                   /\ UNCHANGED result
    /\ UNCHANGED <<params, transport, built, triggerVars, scanVars, tuiVars>>

\* lines 232-238: close the body, judge the status code
RunStatus ==
    /\ pc = "status"
    /\ result' = IF statusOK(resp.StatusCode)
                 THEN NilErr
                 ELSE [msg |-> "unexpected status code: ",
                       code |-> Itoa(resp.StatusCode)]
    /\ pc' = "returned"
    /\ UNCHANGED <<params, transport, built, requests, resp, triggerVars, scanVars, tuiVars>>

\* createDispatchRequest called on its own, as TestCreateDispatchRequest does
Build ==
    /\ pc = "createDispatchRequest"
    /\ built' = createDispatchRequest(params)
    /\ pc' = "built"
    /\ UNCHANGED <<params, transport, requests, resp, result, triggerVars, scanVars, tuiVars>>

-----------------------------------------------------------------------------
(* Inputs drawn for the dispatch operations *)

\* characters of a ref: plain, needing a JSON escape, and not valid UTF-8
RefAlphabet == {"m", QUOTE, LT, BAD}
Refs == StrsUpTo(RefAlphabet, MaxStrLen)
Owners == {<<>>, <<"o">>, <<"o", "/">>}
Repos == {<<>>, <<"r">>}
Files == {<<>>, <<"c", ".", "y">>}
InputNames == {<<"e">>, <<"k", QUOTE>>, <<"a", BAD>>}
InputVals == {<<>>, <<"p">>, <<BSLASH, "u">>, <<BAD, LT>>}
InputMaps == UNION {[S -> InputVals] : S \in SUBSET InputNames}

BuildParams ==
    [Owner : Owners, Repo : Repos, WorkflowFile : Files, Ref : Refs,
     Inputs : InputMaps]

RunParams ==
    [Owner : {<<>>, <<"u">>}, Repo : {<<>>, <<"r">>},
     WorkflowFile : {<<>>, <<"t">>}, Ref : {<<>>, <<"m">>},
     Inputs : {<<>>, (<<"e">> :> <<"p">>)}]

StatusCodes == {100, 199, 200, 201, 204, 299, 300, 301, 404, 500}
Transports ==
    [Error : {NilErr, ErrNetwork, ErrTimeout}, ResponseCode : StatusCodes,
     Body : {<<>>, <<"{", "}">>}]

IdleDispatch ==
    /\ params = [Owner |-> <<>>, Repo |-> <<>>, WorkflowFile |-> <<>>,
                 Ref |-> <<>>, Inputs |-> <<>>]
    /\ transport = [Error |-> NilErr, ResponseCode |-> 204, Body |-> <<>>]
    /\ built = [endpoint |-> <<>>, body |-> <<>>, err |-> NilErr]
    /\ requests = <<>>
    /\ resp = NoResp
    /\ result = NilErr

IdleTrigger ==
    /\ on = [kind |-> "nil"]
    /\ has = FALSE
    /\ inputs = [isNil |-> TRUE]
    /\ emitted = <<>>

IdleScan ==
    /\ dir = [path |-> <<>>, state |-> "absent", entries |-> <<>>]
    /\ idx = 0
    /\ workflows = <<>>
    /\ reads = <<>>
    /\ scanErr = NilErr

\* item{} and model{}: the zero values of the interactive program's types
ZeroItem == [title |-> <<>>, desc |-> <<>>, fileName |-> <<>>, inputs |-> [isNil |-> TRUE]]
NoMsg == [isNil |-> TRUE]

IdleTui ==
    /\ model = [state |-> "selectingWorkflow",
                list |-> [items |-> <<>>, selected |-> 0],
                workflows |-> <<>>, branches |-> <<>>,
                selectedWorkflow |-> ZeroItem, selectedBranch |-> ZeroItem,
                quitting |-> FALSE, owner |-> <<>>, repo |-> <<>>,
                currentBranch |-> <<>>,
                workflowInputs |-> [isNil |-> TRUE], userInputs |-> <<>>,
                inputKeys |-> <<>>, currentInputIdx |-> 0, inputBuffer |-> <<>>]
    /\ msg = NoMsg

InitBuild ==
    /\ pc = "createDispatchRequest"
    /\ params \in BuildParams
    /\ transport = [Error |-> NilErr, ResponseCode |-> 204, Body |-> <<>>]
    /\ built = [endpoint |-> <<>>, body |-> <<>>, err |-> NilErr]
    /\ requests = <<>>
    /\ resp = NoResp
    /\ result = NilErr
    /\ IdleTrigger
    /\ IdleScan
    /\ IdleTui

NextBuild == Build

SpecBuild == InitBuild /\ [][NextBuild]_vars

InitDispatch ==
    /\ pc = "RunDispatch"
    /\ params \in RunParams
    /\ transport \in Transports
    /\ built = [endpoint |-> <<>>, body |-> <<>>, err |-> NilErr]
    /\ requests = <<>>
    /\ resp = NoResp
    /\ result = NilErr
    /\ IdleTrigger
    /\ IdleScan
    /\ IdleTui

NextDispatch == RunCreate \/ RunRequest \/ RunStatus

SpecDispatch == InitDispatch /\ [][NextDispatch]_vars

-----------------------------------------------------------------------------
(* Reading a request back: what a JSON decoder makes of the body *)

ParseFail == [ok |-> FALSE, val |-> <<>>, next |-> 0]

\* the rune a \uXXXX escape stands for
RuneOfHex(hex) ==
    CASE hex = <<"0", "0", "3", "c">> -> LT
      [] hex = <<"f", "f", "f", "d">> -> REPL
      [] OTHER -> "?"

RECURSIVE scanString(_, _, _)
\* the characters of a JSON string from position i (after the opening quote)
scanString(b, i, acc) ==
    IF i > Len(b) THEN ParseFail
    ELSE IF b[i] = QUOTE THEN [ok |-> TRUE, val |-> acc, next |-> i + 1]
    ELSE IF b[i] = BSLASH
    THEN IF i + 1 > Len(b) THEN ParseFail
         ELSE IF b[i + 1] \in {QUOTE, BSLASH}
         THEN scanString(b, i + 2, Append(acc, b[i + 1]))
         ELSE IF b[i + 1] = "u" /\ i + 5 =< Len(b)
                 /\ RuneOfHex(SubSeq(b, i + 2, i + 5)) # "?"
         THEN scanString(b, i + 6, Append(acc, RuneOfHex(SubSeq(b, i + 2, i + 5))))
         ELSE ParseFail
    ELSE IF b[i] = BAD THEN scanString(b, i + 1, Append(acc, REPL))
    ELSE scanString(b, i + 1, Append(acc, b[i]))

parseString(b, i) ==
    IF i =< Len(b) /\ b[i] = QUOTE THEN scanString(b, i + 1, <<>>) ELSE ParseFail

RECURSIVE parseMembers(_, _, _, _)
\* the members of an object from position i (after "{" or ","); the values are
\* strings, or objects of strings while depth > 0
parseMembers(b, i, acc, depth) ==
    LET k == parseString(b, i)
    IN  IF ~k.ok \/ k.next + 1 > Len(b) \/ b[k.next] # ":" THEN ParseFail
        ELSE LET at == k.next + 1
                 v == IF b[at] = "{" /\ depth > 0
                      THEN IF at + 1 =< Len(b) /\ b[at + 1] = "}"
                           THEN [ok |-> TRUE, val |-> [obj |-> <<>>], next |-> at + 2]
                           ELSE LET o == parseMembers(b, at + 1, <<>>, depth - 1)
                                IN  [ok |-> o.ok, val |-> [obj |-> o.val],
                                     next |-> o.next]
                      ELSE LET str == parseString(b, at)
                           IN  [ok |-> str.ok, val |-> [str |-> str.val],
                                next |-> str.next]
             IN  IF ~v.ok \/ v.next > Len(b) THEN ParseFail
                 ELSE LET more == (k.val :> v.val) @@ acc
                      IN  IF b[v.next] = "}"
                          THEN [ok |-> TRUE, val |-> more, next |-> v.next + 1]
                          ELSE IF b[v.next] = ","
                          THEN parseMembers(b, v.next + 1, more, depth)
                          ELSE ParseFail

\* the object a JSON decoder reads from the whole of b
Decoded(b) ==
    IF Len(b) < 2 \/ b[1] # "{" THEN ParseFail
    ELSE IF b[2] = "}"
    THEN [ok |-> Len(b) = 2, val |-> <<>>, next |-> 3]
    ELSE LET o == parseMembers(b, 2, <<>>, 1)
         IN  [ok |-> o.ok /\ o.next = Len(b) + 1, val |-> o.val, next |-> o.next]

RECURSIVE Atoi(_)
\* the number a sequence of decimal digits writes
Atoi(ds) ==
    IF ds = <<>> THEN 0
    ELSE 10 * Atoi(SubSeq(ds, 1, Len(ds) - 1))
         + (CHOOSE d \in 0..9 : Digits[d + 1] = ds[Len(ds)])

\* every character of s is valid UTF-8
ValidUTF8(s) == \A i \in 1..Len(s) : s[i] # BAD

Valid(p) ==
    p.Owner # <<>> /\ p.Repo # <<>> /\ p.WorkflowFile # <<>> /\ p.Ref # <<>>

-----------------------------------------------------------------------------
(* Claims about createDispatchRequest *)

\* C1: createDispatchRequest validates in a fixed order and reports only the
\* first failing check: owner or repo empty gives exactly "owner and repo are
\* required" whatever the other fields are; else an empty workflow file gives
\* "workflow file is required"; else an empty ref gives "ref (branch) is
\* required"; and on each failure the endpoint is "" and the payload is nil.
C1_ValidationOrder ==
    pc = "built" =>
        /\ (params.Owner = <<>> \/ params.Repo = <<>>)
             => built.err = [msg |-> "owner and repo are required"]
        /\ (params.Owner # <<>> /\ params.Repo # <<>> /\ params.WorkflowFile = <<>>)
             => built.err = [msg |-> "workflow file is required"]
        /\ (params.Owner # <<>> /\ params.Repo # <<>> /\ params.WorkflowFile # <<>>
            /\ params.Ref = <<>>)
             => built.err = [msg |-> "ref (branch) is required"]
        /\ ~Valid(params)
             => built.err # NilErr /\ built.endpoint = <<>> /\ built.body = <<>>

\* an intent missing owner, workflow file and ref at once has been judged
C1_Witness ==
    /\ pc = "built"
    /\ params.Owner = <<>> /\ params.Repo # <<>>
    /\ params.WorkflowFile = <<>> /\ params.Ref = <<>>
    /\ built.err = [msg |-> "owner and repo are required"]

\* the endpoint is the template with the three values put in unchanged
EndpointVerbatim(e, p) ==
    LET o == Len(p.Owner)
        r == Len(p.Repo)
        f == Len(p.WorkflowFile)
    IN  /\ Len(e) = 6 + o + 1 + r + 19 + f + 11
        /\ SubSeq(e, 1, 6) = <<"r", "e", "p", "o", "s", "/">>
        /\ SubSeq(e, 7, 6 + o) = p.Owner
        /\ e[7 + o] = "/"
        /\ SubSeq(e, 8 + o, 7 + o + r) = p.Repo
        /\ SubSeq(e, 8 + o + r, 26 + o + r)
             = <<"/", "a", "c", "t", "i", "o", "n", "s", "/",
                 "w", "o", "r", "k", "f", "l", "o", "w", "s", "/">>
        /\ SubSeq(e, 27 + o + r, 26 + o + r + f) = p.WorkflowFile
        /\ SubSeq(e, 27 + o + r + f, Len(e))
             = <<"/", "d", "i", "s", "p", "a", "t", "c", "h", "e", "s">>

\* the payload read back holds the ref and, exactly when there are input
\* values, the input values, unchanged, and nothing else
PayloadCarries(body, p) ==
    LET d == Decoded(body)
        refKey == <<"r", "e", "f">>
        inputsKey == <<"i", "n", "p", "u", "t", "s">>
    IN  /\ d.ok
        /\ DOMAIN d.val \subseteq {refKey, inputsKey}
        /\ refKey \in DOMAIN d.val
        /\ d.val[refKey] = [str |-> p.Ref]
        /\ inputsKey \in DOMAIN d.val <=> DOMAIN p.Inputs # {}
        /\ DOMAIN p.Inputs # {} =>
             /\ DOMAIN d.val[inputsKey] = {"obj"}
             /\ DOMAIN d.val[inputsKey].obj = DOMAIN p.Inputs
             /\ \A k \in DOMAIN p.Inputs :
                  d.val[inputsKey].obj[k] = [str |-> p.Inputs[k]]

PayloadUTF8(p) ==
    /\ ValidUTF8(p.Ref)
    /\ \A k \in DOMAIN p.Inputs : ValidUTF8(k) /\ ValidUTF8(p.Inputs[k])

\* C4 as stated: for every intent whose owner, repo, workflow file and ref are
\* non-empty, createDispatchRequest succeeds, the endpoint is the template with
\* the values substituted verbatim, and the payload's "ref" equals the ref and
\* its "inputs" is present iff the mapping is non-empty and then equals it.
C4_AsStated ==
    (pc = "built" /\ Valid(params)) =>
        /\ built.err = NilErr
        /\ EndpointVerbatim(built.endpoint, params)
        /\ PayloadCarries(built.body, params)

\* C4 amended: the same, for intents whose ref, input names and input values
\* are valid UTF-8 (json.Marshal replaces every invalid byte by U+FFFD); the
\* success and the endpoint hold for every such intent, valid UTF-8 or not.
C4_PayloadForValidUTF8 ==
    (pc = "built" /\ Valid(params)) =>
        /\ built.err = NilErr
        /\ EndpointVerbatim(built.endpoint, params)
        /\ PayloadUTF8(params) => PayloadCarries(built.body, params)

\* a request was built for an intent with an owner holding "/", a ref holding
\* a quote, and two input values, one of them needing an escape
C4_Witness ==
    /\ pc = "built" /\ Valid(params) /\ PayloadUTF8(params)
    /\ params.Owner = <<"o", "/">>
    /\ params.Ref = <<"m", QUOTE>>
    /\ DOMAIN params.Inputs = {<<"e">>, <<"k", QUOTE>>}
    /\ params.Inputs[<<"e">>] = <<BSLASH, "u">>
    /\ built.err = NilErr

-----------------------------------------------------------------------------
(* Claims about RunDispatch *)

\* C2: one call of RunDispatch issues at most one transport request: none when
\* the validation of the params fails (the validation error is what the call
\* returns), exactly one POST otherwise; a transport error or a status outside
\* 2xx ends the call at once, with no second request.
C2_AtMostOneRequest ==
    /\ Len(requests) =< 1
    /\ \A i \in 1..Len(requests) : requests[i].method = "POST"
    /\ ~Valid(params) => requests = <<>>
    /\ pc = "status" => (Len(requests) = 1 /\ transport.Error = NilErr)
    /\ pc = "returned" =>
         /\ ~Valid(params) =>
              result \in {[msg |-> "owner and repo are required"],
                          [msg |-> "workflow file is required"],
                          [msg |-> "ref (branch) is required"]}
         /\ Valid(params) => Len(requests) = 1

\* a call whose only request met a transport error has returned that failure
C2_Witness ==
    /\ pc = "returned"
    /\ Valid(params)
    /\ transport.Error # NilErr
    /\ Len(requests) = 1
    /\ result # NilErr

\* C3: for valid params the outcome is a function of the transport's answer
\* alone: an error gives "failed to dispatch request: <cause>"; a status code s
\* gives success iff 200 <= s <= 299 and otherwise "unexpected status code: <s>"
\* with that code in decimal; the response body plays no part.
C3_OutcomeFromTransport ==
    (pc = "returned" /\ Valid(params)) =>
        IF transport.Error # NilErr
        THEN result = [msg |-> "failed to dispatch request: ",
                       cause |-> transport.Error.msg]
        ELSE IF 200 =< transport.ResponseCode /\ transport.ResponseCode =< 299
        THEN result = NilErr
        ELSE /\ DOMAIN result = {"msg", "code"}
             /\ result.msg = "unexpected status code: "
             /\ Atoi(result.code) = transport.ResponseCode

\* a response with status 300 and a non-empty body was judged a failure
C3_Witness ==
    /\ pc = "returned"
    /\ Valid(params)
    /\ transport.Error = NilErr
    /\ transport.ResponseCode = 300
    /\ transport.Body # <<>>
    /\ result = [msg |-> "unexpected status code: ", code |-> <<"3", "0", "0">>]

-----------------------------------------------------------------------------
(* Values decoded from YAML into Go's `any` *)
(*   [kind |-> "nil"]                       nil                              *)
(*   [kind |-> "string", s |-> chars]       string                           *)
(*   [kind |-> "bool", b |-> BOOLEAN]       bool                             *)
(*   [kind |-> "int", n |-> Int]            int                              *)
(*   [kind |-> "seq", items |-> Seq(value)] []any                            *)
(*   [kind |-> "map", m |-> [keys -> value]] map[string]any                  *)
(*   [kind |-> "genmap", g |-> [keys -> value]] map[any]any, which yaml.v3   *)
(*       builds for a mapping with a key that is not a string                *)

WorkflowDispatch == <<"w", "o", "r", "k", "f", "l", "o", "w", "_", "d", "i", "s", "p", "a", "t", "c", "h">>
Push == <<"p", "u", "s", "h">>
PullRequest == <<"p", "u", "l", "l", "_", "r", "e", "q", "u", "e", "s", "t">>
InputsField == <<"i", "n", "p", "u", "t", "s">>
DescriptionField == <<"d", "e", "s", "c", "r", "i", "p", "t", "i", "o", "n">>
RequiredField == <<"r", "e", "q", "u", "i", "r", "e", "d">>
DefaultField == <<"d", "e", "f", "a", "u", "l", "t">>
TypeField == <<"t", "y", "p", "e">>
OptionsField == <<"o", "p", "t", "i", "o", "n", "s">>

Nil == [kind |-> "nil"]
StrOf(s) == [kind |-> "string", s |-> s]
BoolOf(b) == [kind |-> "bool", b |-> b]
IntOf(n) == [kind |-> "int", n |-> n]
SeqOf(items) == [kind |-> "seq", items |-> items]
MapOf(m) == [kind |-> "map", m |-> m]
GenMapOf(g) == [kind |-> "genmap", g |-> g]

\* v.(string), v.(bool), v.([]any), v.(map[string]any): the ok of the assertion
isString(v) == v.kind = "string"
isBool(v) == v.kind = "bool"
isSlice(v) == v.kind = "seq"
isStringMap(v) == v.kind = "map"

\* m[key] on a map[string]any: the value, or nil when the key is missing
lookup(m, key) == IF key \in DOMAIN m THEN m[key] ELSE Nil

-----------------------------------------------------------------------------
(* hasWorkflowDispatch *)

hasWorkflowDispatchFirstOnly(v) ==
    CASE isString(v) -> v.s = WorkflowDispatch
      [] isSlice(v) ->
            v.items # <<>> /\ isString(v.items[1]) /\ v.items[1].s = WorkflowDispatch
      [] isStringMap(v) -> WorkflowDispatch \in DOMAIN v.m
      [] OTHER -> FALSE
hasWorkflowDispatch(v) ==
    CASE isString(v) -> v.s = WorkflowDispatch
      [] isSlice(v) ->
            \E i \in 1..Len(v.items) :
                isString(v.items[i]) /\ v.items[i].s = WorkflowDispatch
      [] isStringMap(v) -> WorkflowDispatch \in DOMAIN v.m
      [] OTHER -> FALSE

-----------------------------------------------------------------------------
(* extractInputs *)

\* the nil map[string]Input
NilInputs == [isNil |-> TRUE]

RECURSIVE stringItems(_)
\* lines 173-177: the string elements of an options list, in order
stringItems(items) ==
    IF items = <<>> THEN <<>>
    ELSE (IF isString(Head(items)) THEN <<Head(items).s>> ELSE <<>>)
         \o stringItems(Tail(items))

\* lines 159-178: one Input from the mapping of its declaration
inputOf(inputMap) ==
    LET desc == lookup(inputMap, DescriptionField)
        req == lookup(inputMap, RequiredField)
        def == lookup(inputMap, DefaultField)
        typ == lookup(inputMap, TypeField)
        opts == lookup(inputMap, OptionsField)
    IN  [Description |-> IF isString(desc) THEN desc.s ELSE <<>>,
         Required |-> IF isBool(req) THEN req.b ELSE FALSE,
         Default |-> IF isString(def) THEN def.s ELSE <<>>,
         Type |-> IF isString(typ) THEN typ.s ELSE <<>>,
         Options |-> IF isSlice(opts) THEN stringItems(opts.items) ELSE <<>>]

extractInputs(v) ==
    IF ~isStringMap(v) THEN NilInputs
    ELSE IF WorkflowDispatch \notin DOMAIN v.m THEN NilInputs
    ELSE LET wd == v.m[WorkflowDispatch]
         IN  IF ~isStringMap(wd) THEN NilInputs
             ELSE IF InputsField \notin DOMAIN wd.m THEN NilInputs
             ELSE LET inputsRaw == wd.m[InputsField]
                  IN  IF ~isStringMap(inputsRaw) THEN NilInputs
                      ELSE LET kept == {key \in DOMAIN inputsRaw.m :
                                           isStringMap(inputsRaw.m[key])}
                           IN  IF kept = {} THEN NilInputs
                               ELSE [m |-> [key \in kept |->
                                              inputOf(inputsRaw.m[key].m)]]

-----------------------------------------------------------------------------
(* LoadDispatchableWorkflows, lines 85-101: one parsed file *)

WorkflowsRelDir == <<".", "g", "i", "t", "h", "u", "b", "/", "w", "o", "r", "k", "f", "l", "o", "w", "s">>

\* filepath.Join(".github", "workflows", name) for the name of a directory entry
relativePathOf(name) == Concat(<<WorkflowsRelDir, <<"/">>, name>>)

appendIfInputsOnly(ws, name, wf) ==
    LET ins == extractInputs(wf.On)
    IN  IF ins # NilInputs
        THEN Append(ws, [Name |-> IF wf.Name = <<>> THEN name ELSE wf.Name,
                         Path |-> relativePathOf(name),
                         FileName |-> name,
                         Inputs |-> ins])
        ELSE ws
appendIfNoTitleFallback(ws, name, wf) ==
    LET ins == extractInputs(wf.On)
    IN  IF ins # NilInputs \/ hasWorkflowDispatch(wf.On)
        THEN Append(ws, [Name |-> wf.Name,
                         Path |-> relativePathOf(name),
                         FileName |-> name,
                         Inputs |-> ins])
        ELSE ws
appendIfDispatchable(ws, name, wf) ==
    LET ins == extractInputs(wf.On)
    IN  IF ins # NilInputs \/ hasWorkflowDispatch(wf.On)
        THEN Append(ws, [Name |-> IF wf.Name = <<>> THEN name ELSE wf.Name,
                         Path |-> relativePathOf(name),
                         FileName |-> name,
                         Inputs |-> ins])
        ELSE ws

DeployYml == <<"d", "e", "p", "l", "o", "y", ".", "y", "m", "l">>

\* the trigger declaration of one file is classified: hasWorkflowDispatch as
\* TestHasWorkflowDispatch calls it, extractInputs and the append as the
\* loader runs them
Classify ==
    /\ pc = "classify"
    /\ has' = hasWorkflowDispatch(on)
    /\ inputs' = extractInputs(on)
    /\ emitted' = appendIfDispatchable(<<>>, DeployYml, [Name |-> <<>>, On |-> on])
    /\ pc' = "classified"
    /\ UNCHANGED <<on, dispatchVars, scanVars, tuiVars>>

-----------------------------------------------------------------------------
(* Trigger declarations drawn for the classification *)

\* maps extended by an optional key with one of the given values
WithOptional(maps, key, choices) ==
    maps \cup {(key :> c) @@ m : m \in maps, c \in choices}

InputConfigMaps ==
    WithOptional(
      WithOptional(
        WithOptional(
          WithOptional(
            WithOptional({<<>>}, DescriptionField, {StrOf(<<"d">>), IntOf(1)}),
            RequiredField, {BoolOf(TRUE), StrOf(<<"y">>)}),
          DefaultField, {StrOf(<<"1", ".", "0">>), BoolOf(TRUE)}),
        TypeField, {StrOf(<<"c">>)}),
      OptionsField,
      {SeqOf(<<StrOf(<<"a">>), StrOf(<<"b">>)>>),
       SeqOf(<<StrOf(<<"a">>), IntOf(1), StrOf(<<"b">>)>>),
       StrOf(<<"a">>)})

InputConfigs ==
    {MapOf(m) : m \in InputConfigMaps}
    \cup {Nil, StrOf(<<"x">>), GenMapOf(RequiredField :> BoolOf(TRUE))}

InputsMaps ==
    WithOptional(
      WithOptional({<<>>}, <<"v">>, InputConfigs),
      <<"e">>, {Nil, MapOf(<<>>), MapOf(RequiredField :> BoolOf(TRUE))})

InputsValues ==
    {MapOf(m) : m \in InputsMaps} \cup {Nil, StrOf(<<"x">>), SeqOf(<<>>)}

WorkflowDispatchMaps ==
    WithOptional(WithOptional({<<>>}, InputsField, InputsValues),
                 <<"o">>, {Nil})

WorkflowDispatchValues ==
    {MapOf(m) : m \in WorkflowDispatchMaps}
    \cup {Nil, StrOf(<<"x">>), BoolOf(TRUE), SeqOf(<<>>),
          GenMapOf(InputsField :> MapOf(<<"v">> :> MapOf(<<>>)))}

OnMaps ==
    WithOptional(WithOptional({<<>>}, WorkflowDispatch, WorkflowDispatchValues),
                 Push, {Nil})

OnItems == {StrOf(WorkflowDispatch), StrOf(Push), StrOf(PullRequest), IntOf(1)}

RECURSIVE SeqsUpTo(_, _)
SeqsUpTo(items, n) ==
    IF n = 0 THEN {<<>>}
    ELSE LET shorter == SeqsUpTo(items, n - 1)
         IN  shorter \cup {Append(q, x) : q \in shorter, x \in items}

OnValues ==
    {MapOf(m) : m \in OnMaps}
    \cup {SeqOf(q) : q \in SeqsUpTo(OnItems, MaxSeqLen)}
    \cup {Nil, StrOf(WorkflowDispatch), StrOf(Push), BoolOf(TRUE), IntOf(1),
          GenMapOf(WorkflowDispatch :> Nil)}

InitTrigger ==
    /\ pc = "classify"
    /\ on \in OnValues
    /\ has = FALSE
    /\ inputs = NilInputs
    /\ emitted = <<>>
    /\ IdleDispatch
    /\ IdleScan
    /\ IdleTui

NextTrigger == Classify

SpecTrigger == InitTrigger /\ [][NextTrigger]_vars

-----------------------------------------------------------------------------
(* Claims about the trigger declaration *)

\* the literal trigger name, written out
ManualTrigger == <<"w", "o", "r", "k", "f", "l", "o", "w", "_", "d", "i", "s", "p", "a", "t", "c", "h">>

\* the declaration names manual dispatch: as the string itself, as an element
\* of a sequence, or as a key of a mapping with string keys
DeclaresDispatch(v) ==
    \/ v = [kind |-> "string", s |-> ManualTrigger]
    \/ /\ v.kind = "seq"
       /\ [kind |-> "string", s |-> ManualTrigger]
            \in {v.items[i] : i \in 1..Len(v.items)}
    \/ /\ v.kind = "map"
       /\ ManualTrigger \in DOMAIN v.m

\* C5: hasWorkflowDispatch is total and true exactly when the declaration is
\* the string "workflow_dispatch", a sequence with that string at any
\* position, or a mapping with that key whatever its value; false for nil,
\* every other type, other strings, and sequences or mappings without it.
C5_HasExactly ==
    pc = "classified" => (has <=> DeclaresDispatch(on))

\* a sequence naming the trigger in second place was classified as supported
C5_Witness ==
    /\ pc = "classified"
    /\ on = SeqOf(<<StrOf(Push), StrOf(WorkflowDispatch)>>)
    /\ has

\* the mapping of declared inputs, when the declaration has the shape
\* on: {workflow_dispatch: {inputs: {...}}}; NotDeclared otherwise
NotDeclared == [none |-> TRUE]
DeclaredInputs(v) ==
    IF v.kind = "map" /\ ManualTrigger \in DOMAIN v.m
       /\ v.m[ManualTrigger].kind = "map"
       /\ <<"i", "n", "p", "u", "t", "s">> \in DOMAIN v.m[ManualTrigger].m
       /\ v.m[ManualTrigger].m[<<"i", "n", "p", "u", "t", "s">>].kind = "map"
    THEN [decl |-> v.m[ManualTrigger].m[<<"i", "n", "p", "u", "t", "s">>].m]
    ELSE NotDeclared

\* the value of a string field of a declared input: the declared string, or ""
DeclaredString(cfg, field) ==
    IF cfg.kind = "map" /\ field \in DOMAIN cfg.m /\ cfg.m[field].kind = "string"
    THEN cfg.m[field].s
    ELSE <<>>

\* the entry the schema is to hold for a declared input
ExpectedInput(cfg) ==
    [Description |-> DeclaredString(cfg, <<"d", "e", "s", "c", "r", "i", "p", "t", "i", "o", "n">>),
     Required |->
        IF cfg.kind = "map" /\ <<"r", "e", "q", "u", "i", "r", "e", "d">> \in DOMAIN cfg.m /\ cfg.m[<<"r", "e", "q", "u", "i", "r", "e", "d">>].kind = "bool"
        THEN cfg.m[<<"r", "e", "q", "u", "i", "r", "e", "d">>].b
        ELSE FALSE,
     Default |-> DeclaredString(cfg, <<"d", "e", "f", "a", "u", "l", "t">>),
     Type |-> DeclaredString(cfg, <<"t", "y", "p", "e">>),
     Options |->
        IF cfg.kind = "map" /\ <<"o", "p", "t", "i", "o", "n", "s">> \in DOMAIN cfg.m /\ cfg.m[<<"o", "p", "t", "i", "o", "n", "s">>].kind = "seq"
        THEN LET items == cfg.m[<<"o", "p", "t", "i", "o", "n", "s">>].items
                 strs == SelectSeq(items, LAMBDA x : x.kind = "string")
             IN  [i \in 1..Len(strs) |-> strs[i].s]
        ELSE <<>>]

\* the entries of a schema, the nil schema having none
SchemaEntries(ins) == IF ins = NilInputs THEN <<>> ELSE ins.m

\* C6 as stated: for a mapping declaration whose "workflow_dispatch" value is
\* a mapping with an "inputs" mapping of N input names, extractInputs returns
\* exactly N entries, one per declared name, each field being the declared
\* value when present with the expected shape and the zero value otherwise.
C6_AsStated ==
    (pc = "classified" /\ DeclaredInputs(on) # NotDeclared) =>
        LET decl == DeclaredInputs(on).decl
            got == SchemaEntries(inputs)
        IN  /\ DOMAIN got = DOMAIN decl
            /\ \A name \in DOMAIN decl : got[name] = ExpectedInput(decl[name])

\* manual dispatch is declared in a shape that carries no input schema
NoSchemaShape(v) ==
    \/ v = [kind |-> "string", s |-> ManualTrigger]
    \/ /\ v.kind = "seq"
       /\ \E i \in 1..Len(v.items) : v.items[i] = [kind |-> "string", s |-> ManualTrigger]
    \/ /\ v.kind = "map"
       /\ ManualTrigger \in DOMAIN v.m
       /\ LET wd == v.m[ManualTrigger]
          IN  \/ wd.kind # "map"
              \/ <<"i", "n", "p", "u", "t", "s">> \notin DOMAIN wd.m
              \/ wd.m[<<"i", "n", "p", "u", "t", "s">>].kind # "map"

\* C7: when manual dispatch is supported but no input schema is extractable
\* (the string, a sequence containing it, or a mapping whose
\* "workflow_dispatch" value is null, not a mapping, has no "inputs" key or has
\* a non-mapping under it), the workflow is still classified as supported (it
\* gets its catalog entry) and its input schema is nil.
C7_SupportedWithoutSchema ==
    (pc = "classified" /\ NoSchemaShape(on)) =>
        /\ has
        /\ inputs = NilInputs
        /\ Len(emitted) = 1
        /\ emitted[1].Inputs = NilInputs

\* a mapping whose "workflow_dispatch" value is null got its catalog entry
C7_Witness ==
    /\ pc = "classified"
    /\ on = MapOf((WorkflowDispatch :> Nil) @@ (Push :> Nil))
    /\ Len(emitted) = 1
    /\ emitted[1].Inputs = NilInputs

-----------------------------------------------------------------------------
(* LoadDispatchableWorkflows: the directory scan *)
(*                                                                         *)
(* dir = [path, state, entries]: state is "dir" (a directory that can be   *)
(* listed), "absent", "denied" (no permission to list) or "file" (the path *)
(* is not a directory). An entry is [name, isDir, file]; file is           *)
(* [readErr |-> TRUE] (os.ReadFile fails), [syntaxErr |-> TRUE] (not YAML) *)
(* or [doc |-> v], v the document as yaml.v3 decodes it.                   *)

NameField == <<"n", "a", "m", "e">>
OnField == <<"o", "n">>

ErrNotExist == [msg |-> "no such file or directory"]
ErrPermission == [msg |-> "permission denied"]
ErrNotDir == [msg |-> "not a directory"]

\* os.ReadDir(workflowsDir)
ReadDir(d) ==
    CASE d.state = "dir" -> [entries |-> d.entries, err |-> NilErr]
      [] d.state = "absent" -> [entries |-> <<>>, err |-> ErrNotExist]
      [] d.state = "denied" -> [entries |-> <<>>, err |-> ErrPermission]
      [] OTHER -> [entries |-> <<>>, err |-> ErrNotDir]

\* os.IsNotExist(err)
IsNotExist(err) == err = ErrNotExist

\* fmt.Errorf("directory %s not found", workflowsDir)
notFoundErrorNoPath(path) ==
    [msg |-> Concat(<<<<"d", "i", "r", "e", "c", "t", "o", "r", "y", " ">>, <<" ", "n", "o", "t", " ", "f", "o", "u", "n", "d">>>>)]
notFoundError(path) ==
    [msg |-> Concat(<<<<"d", "i", "r", "e", "c", "t", "o", "r", "y", " ">>, path, <<" ", "n", "o", "t", " ", "f", "o", "u", "n", "d">>>>)]

RECURSIVE lastDot(_, _)
\* the index of the last "." of name[1..i], 0 when there is none
lastDot(name, i) ==
    IF i = 0 THEN 0
    ELSE IF name[i] = "." THEN i
    ELSE lastDot(name, i - 1)

\* filepath.Ext(name) for a name without a path separator
Ext(name) ==
    LET i == lastDot(name, Len(name))
    IN  IF i = 0 THEN <<>> ELSE SubSeq(name, i, Len(name))

lowerCharIdentity(c) == c
lowerChar(c) ==
    CASE c = "A" -> "a"
      [] c = "L" -> "l"
      [] c = "M" -> "m"
      [] c = "Y" -> "y"
      [] OTHER -> c

\* strings.ToLower
ToLower(str) == [i \in 1..Len(str) |-> lowerChar(str[i])]

\* lines 69-72: the extension test
hasWorkflowExt(name) ==
    LET ext == ToLower(Ext(name))
    IN  ~(ext # <<".", "y", "m", "l">> /\ ext # <<".", "y", "a", "m", "l">>)

\* a YAML scalar decoded into the string field Name
nameOf(v) ==
    CASE v.kind = "string" -> v.s
      [] v.kind = "int" -> Itoa(v.n)
      [] v.kind = "bool" -> IF v.b THEN <<"t", "r", "u", "e">> ELSE <<"f", "a", "l", "s", "e">>
      [] OTHER -> <<>>

\* yaml.Unmarshal(content, &wf) for wf workflowYAML{Name string; On any}
yamlUnmarshal(file) ==
    LET zero == [Name |-> <<>>, On |-> Nil]
    IN  IF "syntaxErr" \in DOMAIN file THEN [err |-> TRUE, wf |-> zero]
        ELSE IF file.doc.kind = "nil" THEN [err |-> FALSE, wf |-> zero]
        ELSE IF file.doc.kind # "map" THEN [err |-> TRUE, wf |-> zero]
        ELSE LET name == lookup(file.doc.m, NameField)
             IN  [err |-> name.kind \in {"seq", "map", "genmap"},
                  wf |-> [Name |-> nameOf(name),
                          On |-> lookup(file.doc.m, OnField)]]

\* lines 57-63
ScanReadDir ==
    /\ pc = "LoadDispatchableWorkflows"
    /\ LET r == ReadDir(dir)
       IN  IF r.err # NilErr
           THEN /\ scanErr' = IF IsNotExist(r.err) THEN notFoundError(dir.path)
                              ELSE r.err
                /\ pc' = "returned"
                /\ UNCHANGED idx
           ELSE /\ idx' = 1
                /\ pc' = "range"
                /\ UNCHANGED scanErr
    /\ UNCHANGED <<dir, workflows, reads, dispatchVars, triggerVars, tuiVars>>

\* lines 65-102: the body of the range loop for the entry at idx
RangeEntryReturningReadErr ==
    /\ pc = "range"
    /\ idx =< Len(dir.entries)
    /\ LET entry == dir.entries[idx]
       IN  IF entry.isDir \/ ~hasWorkflowExt(entry.name)
           THEN UNCHANGED <<workflows, reads, scanErr, pc>> /\ idx' = idx + 1
           ELSE /\ reads' = Append(reads, entry.name)
                /\ IF "readErr" \in DOMAIN entry.file
                   THEN /\ scanErr' = ErrPermission
                        /\ pc' = "returned"
                        /\ UNCHANGED <<workflows, idx>>
                   ELSE /\ idx' = idx + 1
                        /\ UNCHANGED <<scanErr, pc>>
                        /\ LET y == yamlUnmarshal(entry.file)
                           IN  workflows' =
                                  IF y.err THEN workflows
                                  ELSE appendIfDispatchable(workflows, entry.name, y.wf)
    /\ UNCHANGED <<dir, dispatchVars, triggerVars, tuiVars>>
RangeEntry ==
    /\ pc = "range"
    /\ idx =< Len(dir.entries)
    /\ LET entry == dir.entries[idx]
       IN  IF entry.isDir \/ ~hasWorkflowExt(entry.name)
           THEN UNCHANGED <<workflows, reads>>
           ELSE /\ reads' = Append(reads, entry.name)
                /\ IF "readErr" \in DOMAIN entry.file
                   THEN UNCHANGED workflows
                   ELSE LET y == yamlUnmarshal(entry.file)
                        IN  workflows' =
                               IF y.err THEN workflows
                               ELSE appendIfDispatchable(workflows, entry.name, y.wf)
    /\ idx' = idx + 1
    /\ UNCHANGED <<pc, dir, scanErr, dispatchVars, triggerVars, tuiVars>>

\* line 104
RangeDone ==
    /\ pc = "range"
    /\ idx > Len(dir.entries)
    /\ pc' = "returned"
    /\ UNCHANGED <<dir, idx, workflows, reads, scanErr, dispatchVars, triggerVars, tuiVars>>

-----------------------------------------------------------------------------
(* Directories drawn for the scan *)

EntryNames ==
    {<<"a", ".", "y", "m", "l">>,
     <<"b", ".", "Y", "a", "M", "L">>,
     <<"d", ".", "y", "m", "l", ".", "b", "a", "k">>,
     <<".", "y", "m", "l">>,
     <<"y", "a", "m", "l">>}

DocDeploy == MapOf(OnField :> StrOf(WorkflowDispatch))
DocRelease ==
    MapOf((NameField :> StrOf(<<"R">>))
          @@ (OnField :> MapOf(WorkflowDispatch :> MapOf(InputsField :>
                MapOf(<<"v">> :> MapOf((RequiredField :> BoolOf(TRUE))
                                       @@ (DefaultField :> StrOf(<<"1", ".", "0">>))))))))
DocPushOnly == MapOf((NameField :> StrOf(<<"C">>)) @@ (OnField :> StrOf(Push)))
DocBadName == MapOf((NameField :> SeqOf(<<>>)) @@ (OnField :> StrOf(WorkflowDispatch)))
DocEmptyName ==
    MapOf((NameField :> StrOf(<<>>)) @@ (OnField :> SeqOf(<<StrOf(Push), StrOf(WorkflowDispatch)>>)))

EntryKinds ==
    {[isDir |-> TRUE, file |-> [readErr |-> TRUE]],
     [isDir |-> FALSE, file |-> [readErr |-> TRUE]],
     [isDir |-> FALSE, file |-> [syntaxErr |-> TRUE]],
     [isDir |-> FALSE, file |-> [doc |-> DocDeploy]],
     [isDir |-> FALSE, file |-> [doc |-> DocRelease]],
     [isDir |-> FALSE, file |-> [doc |-> DocPushOnly]],
     [isDir |-> FALSE, file |-> [doc |-> DocBadName]],
     [isDir |-> FALSE, file |-> [doc |-> DocEmptyName]]}

\* os.ReadDir lists the entries sorted by file name
ListingOf(S, k) ==
    LET names == SortedKeys(S)
    IN  [i \in 1..Len(names) |->
            [name |-> names[i], isDir |-> k[i].isDir, file |-> k[i].file]]

DirPaths == {<<"/", "r", "/", ".", "g", "i", "t", "h", "u", "b", "/", "w", "o", "r", "k", "f", "l", "o", "w", "s">>, <<"w">>}

WorkflowsDir == CHOOSE path \in DirPaths : Len(path) > 1

\* the directory exists and holds up to MaxEntries entries
IsListedDir(d) ==
    \E S \in SUBSET EntryNames :
        /\ Cardinality(S) =< MaxEntries
        /\ \E k \in [1..Cardinality(S) -> EntryKinds] :
               d = [path |-> WorkflowsDir, state |-> "dir", entries |-> ListingOf(S, k)]

\* the path cannot be listed
IsUnlistedDir(d) ==
    d \in [path : DirPaths, state : {"absent", "denied", "file"}, entries : {<<>>}]

InitScan ==
    /\ pc = "LoadDispatchableWorkflows"
    /\ IsListedDir(dir) \/ IsUnlistedDir(dir)
    /\ idx = 0
    /\ workflows = <<>>
    /\ reads = <<>>
    /\ scanErr = NilErr
    /\ IdleDispatch
    /\ IdleTrigger
    /\ IdleTui

NextScan == ScanReadDir \/ RangeEntry \/ RangeDone

SpecScan == InitScan /\ [][NextScan]_vars

-----------------------------------------------------------------------------
(* Claims about the directory scan *)

\* name ends in ".yml" or ".yaml", in any mix of upper and lower case
EndsInYamlExt(name) ==
    LET n == Len(name)
    IN  \/ /\ n >= 4
           /\ name[n - 3] = "."
           /\ name[n - 2] \in {"y", "Y"}
           /\ name[n - 1] \in {"m", "M"}
           /\ name[n] \in {"l", "L"}
        \/ /\ n >= 5
           /\ name[n - 4] = "."
           /\ name[n - 3] \in {"y", "Y"}
           /\ name[n - 2] \in {"a", "A"}
           /\ name[n - 1] \in {"m", "M"}
           /\ name[n] \in {"l", "L"}

\* the file can be read and is a YAML document that fits workflowYAML
ReadsAndParses(file) ==
    /\ "doc" \in DOMAIN file
    /\ \/ file.doc.kind = "nil"
       \/ /\ file.doc.kind = "map"
          /\ <<"n", "a", "m", "e">> \in DOMAIN file.doc.m
                => file.doc.m[<<"n", "a", "m", "e">>].kind \in {"nil", "string", "int", "bool"}

\* the trigger declaration of a document, nil when it has none
TriggerOf(doc) ==
    IF doc.kind = "map" /\ <<"o", "n">> \in DOMAIN doc.m THEN doc.m[<<"o", "n">>] ELSE [kind |-> "nil"]

\* the entry is a workflow file that can be dispatched by hand
Qualifies(e) ==
    /\ ~e.isDir
    /\ EndsInYamlExt(e.name)
    /\ ReadsAndParses(e.file)
    /\ DeclaresDispatch(TriggerOf(e.file.doc))

FileNames(ws) == [i \in 1..Len(ws) |-> ws[i].FileName]
EntryNamesOf(es) == [i \in 1..Len(es) |-> es[i].name]

\* C8: for an existing directory the catalog is the listing, in listing order,
\* restricted to the entries that are not sub-directories, whose extension is
\* .yml or .yaml in any case, whose content can be read and parsed and whose
\* trigger declaration supports manual dispatch; an unreadable or malformed
\* file is dropped and never removes, reorders or prevents the entries of the
\* files listed before or after it. Stated for every moment of the scan: the
\* catalog is that restriction of the entries passed so far.
C8_CatalogIsFilteredListing ==
    dir.state = "dir" =>
        /\ pc = "range" =>
             FileNames(workflows)
               = EntryNamesOf(SelectSeq(SubSeq(dir.entries, 1, idx - 1), Qualifies))
        /\ pc = "returned" =>
             /\ FileNames(workflows) = EntryNamesOf(SelectSeq(dir.entries, Qualifies))
             /\ scanErr = NilErr

\* a scan returned both good files listed around a malformed one
C8_Witness ==
    /\ pc = "returned"
    /\ dir.state = "dir"
    /\ Len(dir.entries) = 3
    /\ dir.entries[2].file = [syntaxErr |-> TRUE]
    /\ EndsInYamlExt(dir.entries[2].name)
    /\ FileNames(workflows) = <<dir.entries[1].name, dir.entries[3].name>>
    /\ dir.entries[3].name = <<"b", ".", "Y", "a", "M", "L">>

\* C9 as stated: the scan returns an error if and only if the workflows
\* directory is absent.
C9_AsStated ==
    pc = "returned" => (scanErr # NilErr <=> dir.state = "absent")

\* some file of the listing cannot be read or parsed
HasBadFile(es) ==
    \E i \in 1..Len(es) :
        ~es[i].isDir /\ EndsInYamlExt(es[i].name) /\ ~ReadsAndParses(es[i].file)

\* C9 amended: the scan returns an error if and only if the directory cannot
\* be listed: the "not found" error when it is absent, and the error of the
\* listing itself otherwise (no permission, not a directory); every problem
\* met with a file of a listed directory is swallowed.
C9_ErrorIffListingFails ==
    pc = "returned" =>
        /\ scanErr # NilErr <=> dir.state # "dir"
        /\ dir.state = "denied" => scanErr = [msg |-> "permission denied"]
        /\ dir.state = "file" => scanErr = [msg |-> "not a directory"]
        /\ (dir.state = "dir" /\ HasBadFile(dir.entries)) => scanErr = NilErr

\* a scan of a directory that may not be listed returned the listing's error
C9_Witness ==
    /\ pc = "returned"
    /\ dir.state = "denied"
    /\ scanErr = [msg |-> "permission denied"]

\* C10: when the workflows directory is absent the scan fails with the error
\* "directory <path> not found" naming the directory, returns an empty
\* catalog, and reads no file.
C10_AbsentDirectory ==
    dir.state = "absent" =>
        /\ workflows = <<>>
        /\ reads = <<>>
        /\ pc = "returned" =>
             /\ DOMAIN scanErr = {"msg"}
             /\ Len(scanErr.msg) = 10 + Len(dir.path) + 10
             /\ SubSeq(scanErr.msg, 1, 10) = <<"d", "i", "r", "e", "c", "t", "o", "r", "y", " ">>
             /\ SubSeq(scanErr.msg, 11, 10 + Len(dir.path)) = dir.path
             /\ SubSeq(scanErr.msg, 11 + Len(dir.path), Len(scanErr.msg)) = <<" ", "n", "o", "t", " ", "f", "o", "u", "n", "d">>

\* the scan of an absent directory has returned
C10_Witness ==
    /\ pc = "returned"
    /\ dir.state = "absent"
    /\ dir.path = <<"/", "r", "/", ".", "g", "i", "t", "h", "u", "b", "/", "w", "o", "r", "k", "f", "l", "o", "w", "s">>
    /\ scanErr # NilErr

\* the name a workflow document declares, as text; empty when it declares none
DeclaredName(doc) ==
    IF doc.kind = "map" /\ NameField \in DOMAIN doc.m /\ doc.m[NameField].kind = "string"
    THEN doc.m[NameField].s
    ELSE <<>>

\* the directory entry a catalog entry came from: the one carrying its FileName
CameFrom(w, e) == e.name = w.FileName /\ ~e.isDir /\ "doc" \in DOMAIN e.file

\* C11: every catalog entry produced by a scan has a non-empty FileName equal
\* to the name of the file it came from, a Path equal to that name under
\* .github/workflows, and a Name equal to the declared workflow name when one
\* is declared and non-empty and to FileName otherwise; no entry has an empty
\* Name or an empty FileName.
C11_EntryNaming ==
    \A i \in 1..Len(workflows) :
        LET w == workflows[i]
        IN  /\ w.FileName # <<>>
            /\ w.Name # <<>>
            /\ \E j \in 1..Len(dir.entries) :
                 LET e == dir.entries[j]
                 IN  /\ CameFrom(w, e)
                     /\ Len(w.Path) = 18 + Len(e.name)
                     /\ SubSeq(w.Path, 1, 18) =
                          <<".", "g", "i", "t", "h", "u", "b", "/",
                            "w", "o", "r", "k", "f", "l", "o", "w", "s", "/">>
                     /\ SubSeq(w.Path, 19, Len(w.Path)) = e.name
                     /\ w.Name = IF DeclaredName(e.file.doc) # <<>>
                                 THEN DeclaredName(e.file.doc)
                                 ELSE w.FileName

\* a finished scan listed one workflow under its declared name, one that
\* declares no name and one that declares an empty name
C11_Witness ==
    /\ pc = "returned"
    /\ \E i \in 1..Len(workflows) : workflows[i].Name = <<"R">>
    /\ \E i \in 1..Len(workflows), j \in 1..Len(dir.entries) :
         /\ CameFrom(workflows[i], dir.entries[j])
         /\ dir.entries[j].file.doc = DocDeploy
         /\ workflows[i].Name = workflows[i].FileName
    /\ \E i \in 1..Len(workflows), j \in 1..Len(dir.entries) :
         /\ CameFrom(workflows[i], dir.entries[j])
         /\ dir.entries[j].file.doc = DocEmptyName
         /\ workflows[i].Name = workflows[i].FileName

(***************************************************************************)
(* The interactive program: main.go.  The Bubble Tea runtime calls         *)
(* model.Update once per message until an Update returns tea.Quit; p.Run   *)
(* then returns the model of that last call and main dispatches when its   *)
(* state is executing.  The list component (bubbles/list) is modelled by   *)
(* its items and the position of the selected one, 0 when no item is       *)
(* selected (no items, or a filter that matches none).                     *)
(***************************************************************************)

\* msg.String() of the key events
CtrlC == <<"c", "t", "r", "l", "+", "c">>
Enter == <<"e", "n", "t", "e", "r">>
Backspace == <<"b", "a", "c", "k", "s", "p", "a", "c", "e">>
Esc == <<"e", "s", "c">>
EAcute == <<"xC3", "xA9">>
Keys ==
    {CtrlC, Enter, Backspace, Esc, EAcute,
     <<"y">>, <<"Y">>, <<"n">>, <<"N">>}

KeyMsg(k) == [key |-> k]
WindowSizeMsg == [resize |-> TRUE]
Msgs == {KeyMsg(k) : k \in Keys} \cup {WindowSizeMsg}

\* m.list.SelectedItem().(item): the item and whether there is one
NoItem == [isNil |-> TRUE]
SelectedItem(l) == IF l.selected = 0 THEN NoItem ELSE l.items[l.selected]

\* len of a map[string]workflow.Input, nil or not
lenInputs(ins) == IF ins = NilInputs THEN 0 ELSE Cardinality(DOMAIN ins.m)

\* the orders in which `for key := range m.workflowInputs` may visit the keys
rangeOrders(S) ==
    {o \in [1..Cardinality(S) -> S] : \A k \in S : \E i \in DOMAIN o : o[i] = k}

\* lines 127-134: the position list.Select leaves after SetItems(m.branches)
selectCurrent(items, current) ==
    IF \E i \in 1..Len(items) : items[i].title = current
    THEN CHOOSE i \in 1..Len(items) :
             /\ items[i].title = current
             /\ \A j \in 1..(i - 1) : items[j].title # current
    ELSE IF items = <<>> THEN 0 ELSE 1

\* lines 100-111: the keys of the confirmation screen
updateConfirming(mdl, k) ==
    IF k \in {<<"y">>, <<"Y">>}
    THEN {[model |-> [mdl EXCEPT !.state = "executing"], cmd |-> "Quit"]}
    ELSE IF k \in {<<"n">>, <<"N">>, Esc}
    THEN {[model |-> [mdl EXCEPT !.quitting = TRUE], cmd |-> "Quit"]}
    ELSE {[model |-> mdl, cmd |-> "nil"]}

\* lines 119-137: Enter on the workflow list
selectWorkflow(mdl, i) ==
    {[model |-> [mdl EXCEPT !.selectedWorkflow = i,
                            !.state = "selectingBranch",
                            !.list = [items |-> mdl.branches,
                                      selected |-> selectCurrent(mdl.branches,
                                                                 mdl.currentBranch)]],
      cmd |-> "nil"]}

\* lines 138-156: Enter on the branch list
selectBranch(mdl, i) ==
    IF lenInputs(mdl.selectedWorkflow.inputs) > 0
    THEN {[model |-> [mdl EXCEPT !.selectedBranch = i,
                                 !.state = "enteringInputs",
                                 !.workflowInputs = mdl.selectedWorkflow.inputs,
                                 !.userInputs = <<>>,
                                 !.inputKeys = o,
                                 !.currentInputIdx = 0,
                                 !.inputBuffer = <<>>],
           cmd |-> "nil"]
          : o \in rangeOrders(DOMAIN mdl.selectedWorkflow.inputs.m)}
    ELSE {[model |-> [mdl EXCEPT !.selectedBranch = i, !.state = "confirming"],
           cmd |-> "nil"]}

\* lines 161-176: Enter while a value is typed; inputKeys is indexed from 0
storeInputAlwaysBuffer(mdl) ==
    LET key == mdl.inputKeys[mdl.currentInputIdx + 1]
        next == mdl.currentInputIdx + 1
    IN  {[model |-> [mdl EXCEPT !.userInputs = (key :> mdl.inputBuffer) @@ mdl.userInputs,
                                !.inputBuffer = <<>>,
                                !.currentInputIdx = next,
                                !.state = IF next >= Len(mdl.inputKeys)
                                          THEN "confirming" ELSE mdl.state],
          cmd |-> "nil"]}
storeInput(mdl) ==
    LET key == mdl.inputKeys[mdl.currentInputIdx + 1]
        default == mdl.workflowInputs.m[key].Default
        value == IF mdl.inputBuffer = <<>> /\ default # <<>>
                 THEN default ELSE mdl.inputBuffer
        next == mdl.currentInputIdx + 1
    IN  {[model |-> [mdl EXCEPT !.userInputs = (key :> value) @@ mdl.userInputs,
                                !.inputBuffer = <<>>,
                                !.currentInputIdx = next,
                                !.state = IF next >= Len(mdl.inputKeys)
                                          THEN "confirming" ELSE mdl.state],
          cmd |-> "nil"]}

\* lines 186-195: the list handles the message on the two selection screens
\* only; it may move the selection or change the filter, and its quit keys
\* return tea.Quit
updateList(mdl, ms) ==
    IF mdl.state \in {"selectingWorkflow", "selectingBranch"} /\ "key" \in DOMAIN ms
    THEN {[model |-> [mdl EXCEPT !.list.selected = sel], cmd |-> c]
          : sel \in (IF mdl.list.items = <<>> THEN {0} ELSE 0..Len(mdl.list.items)),
            c \in (IF ms.key = Esc THEN {"nil", "Quit"} ELSE {"nil"})}
    ELSE {[model |-> mdl, cmd |-> "nil"]}

\* lines 159-185: the keys of the input screen
updateInputs(mdl, ms) ==
    IF ms.key = Enter THEN storeInput(mdl)
    ELSE IF ms.key = Backspace
    THEN {[model |-> [mdl EXCEPT !.inputBuffer =
                        IF Len(mdl.inputBuffer) > 0
                        THEN SubSeq(mdl.inputBuffer, 1, Len(mdl.inputBuffer) - 1)
                        ELSE mdl.inputBuffer],
           cmd |-> "nil"]}
    ELSE IF Len(ms.key) = 1
    THEN {[model |-> [mdl EXCEPT !.inputBuffer = Concat(<<mdl.inputBuffer, ms.key>>)],
           cmd |-> "nil"]}
    ELSE updateList(mdl, ms)

\* lines 91-196: model.Update, the models and commands one call may return
UpdateConfirmingOnEnter(mdl, ms) ==
    IF "key" \notin DOMAIN ms THEN updateList(mdl, ms)
    ELSE IF ms.key = CtrlC
    THEN {[model |-> [mdl EXCEPT !.quitting = TRUE], cmd |-> "Quit"]}
    ELSE IF mdl.state = "confirming" /\ ms.key # Enter THEN updateConfirming(mdl, ms.key)
    ELSE IF mdl.state = "confirming"
    THEN {[model |-> [mdl EXCEPT !.state = "executing"], cmd |-> "Quit"]}
    ELSE IF ms.key = Enter /\ SelectedItem(mdl.list) = NoItem
    THEN {[model |-> mdl, cmd |-> "nil"]}
    ELSE IF ms.key = Enter /\ mdl.state = "selectingWorkflow"
    THEN selectWorkflow(mdl, SelectedItem(mdl.list))
    ELSE IF ms.key = Enter /\ mdl.state = "selectingBranch"
    THEN selectBranch(mdl, SelectedItem(mdl.list))
    ELSE IF mdl.state = "enteringInputs" THEN updateInputs(mdl, ms)
    ELSE updateList(mdl, ms)
Update(mdl, ms) ==
    IF "key" \notin DOMAIN ms THEN updateList(mdl, ms)
    ELSE IF ms.key = CtrlC
    THEN {[model |-> [mdl EXCEPT !.quitting = TRUE], cmd |-> "Quit"]}
    ELSE IF mdl.state = "confirming" THEN updateConfirming(mdl, ms.key)
    ELSE IF ms.key = Enter /\ SelectedItem(mdl.list) = NoItem
    THEN {[model |-> mdl, cmd |-> "nil"]}
    ELSE IF ms.key = Enter /\ mdl.state = "selectingWorkflow"
    THEN selectWorkflow(mdl, SelectedItem(mdl.list))
    ELSE IF ms.key = Enter /\ mdl.state = "selectingBranch"
    THEN selectBranch(mdl, SelectedItem(mdl.list))
    ELSE IF mdl.state = "enteringInputs" THEN updateInputs(mdl, ms)
    ELSE updateList(mdl, ms)

\* the longest value typed into inputBuffer
MaxBuffer == 1

\* one message delivered to Update while p.Run is running (line 363)
Deliver ==
    /\ pc = "Run"
    /\ \E ms \in Msgs :
         /\ (model.state = "enteringInputs" /\ "key" \in DOMAIN ms /\ Len(ms.key) = 1)
                => Len(model.inputBuffer) < MaxBuffer
         /\ \E r \in Update(model, ms) :
              /\ model' = r.model
              /\ msg' = ms
              /\ pc' = IF r.cmd = "Quit" THEN "main" ELSE "Run"
    /\ UNCHANGED <<dispatchVars, triggerVars, scanVars>>

\* lines 363-367: p.Run fails and main exits with status 1
RunFails ==
    /\ pc = "Run"
    /\ pc' = "exit"
    /\ UNCHANGED <<dispatchVars, triggerVars, scanVars, tuiVars>>

\* lines 369-393: main reads the final model and dispatches when it is executing
AfterRun ==
    /\ pc = "main"
    /\ IF model.state = "executing"
       THEN /\ params' = [Owner |-> model.owner,
                          Repo |-> model.repo,
                          WorkflowFile |-> model.selectedWorkflow.fileName,
                          Ref |-> model.selectedBranch.title,
                          Inputs |-> model.userInputs]
            /\ pc' = "RunDispatch"
       ELSE /\ pc' = "exit"
            /\ UNCHANGED params
    /\ UNCHANGED <<transport, built, requests, resp, result, triggerVars, scanVars, tuiVars>>

\* lines 323-331: the list item of one catalog entry
itemOf(wf) == [title |-> wf.Name, desc |-> wf.Path, fileName |-> wf.FileName,
               inputs |-> wf.Inputs]

\* lines 339-342: the list item of one branch
branchItem(name) == [title |-> name, desc |-> <<"B", "r", "a", "n", "c", "h">>,
                     fileName |-> <<>>, inputs |-> NilInputs]

\* workflow documents of the repository the program is started in
DocMatrix ==
    MapOf((NameField :> StrOf(<<"M">>))
          @@ (OnField :> MapOf(WorkflowDispatch :> MapOf(InputsField :>
                MapOf((<<"v">> :> MapOf(DefaultField :> StrOf(<<"1">>)))
                      @@ (<<"w">> :> MapOf(RequiredField :> BoolOf(TRUE))))))))
DocNoInputs ==
    MapOf(OnField :> MapOf(WorkflowDispatch :> MapOf(InputsField :> MapOf(<<>>))))

\* line 313: the catalog LoadDispatchableWorkflows returns for a listing
RECURSIVE catalogOf(_)
catalogOf(entries) ==
    IF entries = <<>> THEN <<>>
    ELSE LET e == entries[Len(entries)]
         IN  appendIfDispatchable(catalogOf(SubSeq(entries, 1, Len(entries) - 1)),
                                  e.name, yamlUnmarshal(e.file).wf)

Catalogs ==
    {catalogOf(<<[name |-> <<"a", ".", "y", "m", "l">>, file |-> [doc |-> DocDeploy]],
                 [name |-> <<"b", ".", "y", "m", "l">>, file |-> [doc |-> DocRelease]]>>),
     catalogOf(<<[name |-> <<"m", ".", "y", "m", "l">>, file |-> [doc |-> DocMatrix]],
                 [name |-> <<"n", ".", "y", "m", "l">>, file |-> [doc |-> DocNoInputs]]>>)}

\* lines 334-348: what FetchBranches and `git branch --show-current` answer
BranchLists == {<<>>, <<<<"m">>, <<"d">>>>}
CurrentBranches == {<<>>, <<"d">>}

TuiTransports ==
    {[Error |-> NilErr, ResponseCode |-> 204, Body |-> <<>>],
     [Error |-> NilErr, ResponseCode |-> 404, Body |-> <<"{", "}">>],
     [Error |-> ErrNetwork, ResponseCode |-> 204, Body |-> <<>>]}

\* lines 351-362: the initial model, with the first workflow selected
InitTui ==
    /\ pc = "Run"
    /\ \E wfs \in Catalogs, brs \in BranchLists, cur \in CurrentBranches :
         LET wfItems == [i \in 1..Len(wfs) |-> itemOf(wfs[i])]
             brItems == [i \in 1..Len(brs) |-> branchItem(brs[i])]
         IN  model = [state |-> "selectingWorkflow",
                      list |-> [items |-> wfItems, selected |-> 1],
                      workflows |-> wfItems, branches |-> brItems,
                      selectedWorkflow |-> ZeroItem, selectedBranch |-> ZeroItem,
                      quitting |-> FALSE, owner |-> <<"o">>, repo |-> <<"r">>,
                      currentBranch |-> cur,
                      workflowInputs |-> NilInputs, userInputs |-> <<>>,
                      inputKeys |-> <<>>, currentInputIdx |-> 0, inputBuffer |-> <<>>]
    /\ msg = NoMsg
    /\ params = [Owner |-> <<>>, Repo |-> <<>>, WorkflowFile |-> <<>>,
                 Ref |-> <<>>, Inputs |-> <<>>]
    /\ transport \in TuiTransports
    /\ built = [endpoint |-> <<>>, body |-> <<>>, err |-> NilErr]
    /\ requests = <<>>
    /\ resp = NoResp
    /\ result = NilErr
    /\ IdleTrigger
    /\ IdleScan

NextTui == Deliver \/ RunFails \/ AfterRun \/ RunCreate \/ RunRequest \/ RunStatus

SpecTui == InitTui /\ [][NextTui]_vars

\* the key the step's Update call handled, when the step is an Update call
Handled(k) == pc = "Run" /\ pc' \in {"Run", "main"} /\ msg' = KeyMsg(k)
IsItemOf(i, items) == \E n \in 1..Len(items) : items[n] = i
Dispatching == pc \in {"RunDispatch", "request", "status", "returned"}

\* what holds of every state of a run of the interactive program
C12_State ==
    /\ model.state \in {"selectingBranch", "enteringInputs", "confirming", "executing"}
         => IsItemOf(model.selectedWorkflow, model.workflows)
    /\ model.state \in {"enteringInputs", "confirming", "executing"}
         => IsItemOf(model.selectedBranch, model.branches)
    /\ model.state = "executing" => msg \in {KeyMsg(<<"y">>), KeyMsg(<<"Y">>)}
    /\ (Dispatching \/ requests # <<>>) => model.state = "executing"
    /\ Len(requests) <= 1

\* what holds of every step of a run of the interactive program
C12_Step ==
    /\ model'.state # model.state =>
         \/ /\ model.state = "selectingWorkflow" /\ model'.state = "selectingBranch"
            /\ Handled(Enter)
         \/ /\ model.state = "selectingBranch"
            /\ model'.state \in {"enteringInputs", "confirming"}
            /\ Handled(Enter)
         \/ /\ model.state = "enteringInputs" /\ model'.state = "confirming"
            /\ Handled(Enter)
         \/ /\ model.state = "confirming" /\ model'.state = "executing"
            /\ Handled(<<"y">>) \/ Handled(<<"Y">>)
    /\ (Handled(CtrlC)
        \/ (model.state = "confirming"
            /\ (Handled(<<"n">>) \/ Handled(<<"N">>) \/ Handled(Esc))))
         => /\ pc' = "main"
            /\ model'.state # "executing"
    /\ (pc = "main" /\ model.state # "executing")
         => pc' = "exit" /\ requests' = <<>>
    /\ (model.state = "confirming" /\ pc = "Run" /\ pc' \in {"Run", "main"}
        /\ ~Handled(CtrlC)
        /\ \A k \in {<<"y">>, <<"Y">>, <<"n">>, <<"N">>, Esc} : ~Handled(k))
         => model' = model /\ pc' = "Run"

C12_DeclinedWitness ==
    /\ pc = "exit"
    /\ model.state = "confirming"
    /\ model.quitting
    /\ msg = KeyMsg(<<"n">>)
    /\ requests = <<>>

InputNamesOf(i) == IF i.inputs = NilInputs THEN {} ELSE DOMAIN i.inputs.m
KeysOf(keys) == {keys[n] : n \in 1..Len(keys)}

\* the input screen: inputKeys lists each declared name once, and the index
\* is a position of it
C13_State ==
    model.state = "enteringInputs" =>
        /\ KeysOf(model.inputKeys) = InputNamesOf(model.selectedWorkflow)
        /\ Len(model.inputKeys) = Cardinality(InputNamesOf(model.selectedWorkflow))
        /\ Len(model.inputKeys) >= 1
        /\ 0 <= model.currentInputIdx
        /\ model.currentInputIdx < Len(model.inputKeys)
        /\ DOMAIN model.userInputs =
             {model.inputKeys[n] : n \in 1..model.currentInputIdx}

\* Enter on the input screen
C13_Step ==
    /\ (model.state = "enteringInputs" /\ Handled(Enter)) =>
         LET key == model.inputKeys[model.currentInputIdx + 1]
             declared == model.selectedWorkflow.inputs.m[key]
         IN  /\ key \notin DOMAIN model.userInputs
             /\ DOMAIN model'.userInputs = DOMAIN model.userInputs \cup {key}
             /\ \A k \in DOMAIN model.userInputs :
                    model'.userInputs[k] = model.userInputs[k]
             /\ model'.userInputs[key] =
                    IF model.inputBuffer = <<>> /\ declared.Default # <<>>
                    THEN declared.Default
                    ELSE model.inputBuffer
             /\ model'.currentInputIdx = model.currentInputIdx + 1
             /\ model'.inputKeys = model.inputKeys
             /\ (model'.state = "confirming")
                    <=> (model'.currentInputIdx = Len(model.inputKeys))
             /\ model'.state \in {"confirming", "enteringInputs"}
    /\ (model.state = "enteringInputs" /\ model'.state = "confirming") =>
         /\ Handled(Enter)
         /\ DOMAIN model'.userInputs = InputNamesOf(model.selectedWorkflow)

\* C13: while state = enteringInputs, inputKeys holds exactly the names of
\* the selected workflow's declared inputs (at least one) and
\* 0 <= currentInputIdx < len(inputKeys); each Enter there stores exactly one
\* value for the current input name (the typed buffer, or the declared
\* default when the buffer is empty and the default is not) and advances the
\* index by one; the state becomes confirming exactly when the index reaches
\* len(inputKeys), and userInputs then has a value for every declared name,
\* required ones included even when the value is empty.
C13_InputEntry == []C13_State /\ [][C13_Step]_vars

\* the confirmation screen was reached with the default stored for v and the
\* empty value stored for the required input w
C13_Witness ==
    /\ model.state = "confirming"
    /\ model.inputKeys = <<<<"w">>, <<"v">>>>
    /\ model.currentInputIdx = 2
    /\ model.workflowInputs.m[<<"w">>].Required
    /\ model.userInputs = (<<"v">> :> <<"1">>) @@ (<<"w">> :> <<>>)

====
